---- MODULE Spec2Model ----
(***************************************************************************)
(* OpenID Connect layer of oauthlib                                        *)
(* (oauthlib/oauth2/rfc6749/grant_types/openid_connect.py).                *)
(*                                                                         *)
(* Python values are tagged records [t, v]; text is a sequence of          *)
(* one-character strings, so that str.split and json.loads are computed    *)
(* character by character.                                                 *)
(***************************************************************************)
EXTENDS Integers, Sequences, FiniteSets, TLC

\* ------------------------------------------------------------------ bounds
\* longest ui_locales text drawn for a request
MaxLen == 3

\* --------------------------------------------------------- Python values
PyNone == [t |-> "none", v |-> <<>>]

PyStr(s) == [t |-> "str", v |-> s]

PyDict(f) == [t |-> "dict", v |-> f]

PyList(q) == [t |-> "list", v |-> q]

PyInt(digits) == [t |-> "int", v |-> digits]

EmptyDict == PyDict(<<>>)

\* Python truth value of a value (`if x`, `not x`, `x or y`)
Truthy(x) ==
    CASE x.t = "dict" -> DOMAIN x.v # {}
      [] OTHER -> Len(x.v) > 0

Whitespace == {" ", "\t"}

\* str.split() with no argument: runs of whitespace separate the tokens,
\* leading and trailing whitespace yields no empty token
RECURSIVE split_from(_, _, _, _)
split_from(s, i, cur, acc) ==
    IF i > Len(s)
    THEN IF cur = <<>> THEN acc ELSE Append(acc, cur)
    ELSE IF s[i] \in Whitespace
         THEN split_from(s, i + 1, <<>>,
                         IF cur = <<>> THEN acc ELSE Append(acc, cur))
         ELSE split_from(s, i + 1, Append(cur, s[i]), acc)

split_single_space(s) ==
    LET RECURSIVE go(_, _, _)
        go(i, cur, acc) ==
            IF i > Len(s) THEN Append(acc, cur)
            ELSE IF s[i] = " " THEN go(i + 1, <<>>, Append(acc, cur))
                 ELSE go(i + 1, Append(cur, s[i]), acc)
    IN go(1, <<>>, <<>>)

split(s) == split_from(s, 1, <<>>, <<>>)

\* ------------------------------------------------------------ json.loads
\* The decoder over the alphabet { } [ ] " : , 1 a and whitespace.
Fail == [ok |-> FALSE, val |-> PyNone, pos |-> 0]

Ok(val, pos) == [ok |-> TRUE, val |-> val, pos |-> pos]

Digits == {"1"}

RECURSIVE SkipWs(_, _)
SkipWs(s, i) ==
    IF i <= Len(s) /\ s[i] \in Whitespace THEN SkipWs(s, i + 1) ELSE i

At(s, i) == IF i >= 1 /\ i <= Len(s) THEN s[i] ELSE "EOF"

\* index of the closing quote of the string opened before position i
RECURSIVE ClosingQuote(_, _)
ClosingQuote(s, i) ==
    IF i > Len(s) THEN 0
    ELSE IF s[i] = "\"" THEN i ELSE ClosingQuote(s, i + 1)

ParseString(s, i) ==
    LET j == ClosingQuote(s, i + 1)
    IN IF j = 0 THEN Fail ELSE Ok(PyStr(SubSeq(s, i + 1, j - 1)), j + 1)

RECURSIVE NumberEnd(_, _)
NumberEnd(s, i) == IF At(s, i) \in Digits THEN NumberEnd(s, i + 1) ELSE i

DictSet(d, k, x) == [key \in (DOMAIN d) \cup {k} |-> IF key = k THEN x ELSE d[key]]

RECURSIVE ParseValue(_, _)
RECURSIVE ParseElements(_, _, _)
RECURSIVE ParseMembers(_, _, _)
ParseValue(s, i) ==
    LET c == At(s, i)
    IN CASE c = "\"" -> ParseString(s, i)
         [] c \in Digits -> Ok(PyInt(SubSeq(s, i, NumberEnd(s, i) - 1)), NumberEnd(s, i))
         [] c = "[" ->
                LET j == SkipWs(s, i + 1)
                IN IF At(s, j) = "]" THEN Ok(PyList(<<>>), j + 1)
                   ELSE ParseElements(s, j, <<>>)
         [] c = "{" ->
                LET j == SkipWs(s, i + 1)
                IN IF At(s, j) = "}" THEN Ok(PyDict(<<>>), j + 1)
                   ELSE ParseMembers(s, j, <<>>)
         [] OTHER -> Fail

\* i is at the start of an array element
ParseElements(s, i, acc) ==
    LET e == ParseValue(s, i)
    IN IF ~e.ok THEN Fail
       ELSE LET j == SkipWs(s, e.pos)
                c == At(s, j)
            IN IF c = "]" THEN Ok(PyList(Append(acc, e.val)), j + 1)
               ELSE IF c = "," THEN ParseElements(s, SkipWs(s, j + 1), Append(acc, e.val))
               ELSE Fail

\* i is at the place where a property name is expected
ParseMembers(s, i, acc) ==
    IF At(s, i) # "\"" THEN Fail
    ELSE LET k == ParseString(s, i)
         IN IF ~k.ok THEN Fail
            ELSE LET j == SkipWs(s, k.pos)
                 IN IF At(s, j) # ":" THEN Fail
                    ELSE LET x == ParseValue(s, SkipWs(s, j + 1))
                         IN IF ~x.ok THEN Fail
                            ELSE LET m == SkipWs(s, x.pos)
                                     c == At(s, m)
                                     d == DictSet(acc, k.val.v, x.val)
                                 IN IF c = "}" THEN Ok(PyDict(d), m + 1)
                                    ELSE IF c = "," THEN ParseMembers(s, SkipWs(s, m + 1), d)
                                    ELSE Fail

\* json.loads(x): [raised, value]; raised is "" when a value is returned,
\* "ValueError" for text that is not JSON, "TypeError" for a non-text argument
loads(x) ==
    IF x.t # "str" THEN [raised |-> "TypeError", value |-> PyNone]
    ELSE LET r == ParseValue(x.v, SkipWs(x.v, 1))
         IN IF r.ok /\ SkipWs(x.v, r.pos) = Len(x.v) + 1
            THEN [raised |-> "", value |-> r.val]
            ELSE [raised |-> "ValueError", value |-> PyNone]

\* --------------------------------------------------------- the pipeline
NoneText == <<"n", "o", "n", "e">>

\* a returned value / a raised exception, with the request as the call left
\* it and the request-validator calls the call made, in order
Return(value, request, calls) ==
    [raised |-> "", description |-> "", value |-> value,
     request |-> request, calls |-> calls]

Raise(error, description, request, calls) ==
    [raised |-> error, description |-> description, value |-> PyNone,
     request |-> request, calls |-> calls]

MsgHintMissing == "Prompt is set to none yet id_token_hint is missing."

MsgUserMismatch == "Session user does not match client supplied user."

Call(fn, args, result) == [fn |-> fn, args |-> args, result |-> result]

\* the prompt=none block: silent login, then silent authorization.
\* ans is what the request validator answers when asked.
silent_checks_consent_first(request, ans) ==
    LET login == Call("validate_silent_login", [request |-> request], ans.login)
        authz == Call("validate_silent_authorization", [request |-> request], ans.authz)
    IN IF request.prompt # PyStr(NoneText) THEN [raised |-> "", calls |-> <<>>]
       ELSE IF ~ans.authz THEN [raised |-> "ConsentRequired", calls |-> <<authz>>]
       ELSE IF ~ans.login THEN [raised |-> "LoginRequired", calls |-> <<authz, login>>]
       ELSE [raised |-> "", calls |-> <<authz, login>>]

silent_checks_login_only(request, ans) ==
    LET login == Call("validate_silent_login", [request |-> request], ans.login)
    IN IF request.prompt # PyStr(NoneText) THEN [raised |-> "", calls |-> <<>>]
       ELSE IF ~ans.login THEN [raised |-> "LoginRequired", calls |-> <<login>>]
       ELSE [raised |-> "", calls |-> <<login>>]

silent_checks(request, ans) ==
    LET login == Call("validate_silent_login", [request |-> request], ans.login)
        authz == Call("validate_silent_authorization", [request |-> request], ans.authz)
    IN IF request.prompt # PyStr(NoneText) THEN [raised |-> "", calls |-> <<>>]
       ELSE IF ~ans.login THEN [raised |-> "LoginRequired", calls |-> <<login>>]
       ELSE IF ~ans.authz THEN [raised |-> "ConsentRequired", calls |-> <<login, authz>>]
       ELSE [raised |-> "", calls |-> <<login, authz>>]

\* request.claims = loads(request.claims) if request.claims else {}
parse_claims_keep_raw(claims) ==
    [raised |-> "", value |-> IF Truthy(claims) THEN claims ELSE EmptyDict]

parse_claims(claims) ==
    IF Truthy(claims) THEN loads(claims) ELSE [raised |-> "", value |-> EmptyDict]

\* x.split() if x else []
split_or_empty(x) == IF Truthy(x) THEN split(x.v) ELSE <<>>

request_info(request) ==
    [display |-> request.display,
     prompt |-> split_or_empty(request.prompt),
     ui_locales |-> split_or_empty(request.ui_locales),
     id_token_hint |-> request.id_token_hint,
     login_hint |-> request.login_hint]

UserMatchCall(request, ans) ==
    Call("validate_user_match",
         [id_token_hint |-> request.id_token_hint, scopes |-> request.scopes,
          claims |-> request.claims, request |-> request], ans.match)

\* lines 175-188: the user match and the request info; request already
\* holds the parsed claims, calls are the calls made so far
match_user_ignored(request, ans, calls) ==
    Return(PyDict(request_info(request)), request,
           Append(calls, UserMatchCall(request, ans)))

match_user(request, ans, calls) ==
    IF ~ans.match
    THEN Raise("LoginRequired", MsgUserMismatch, request,
               Append(calls, UserMatchCall(request, ans)))
    ELSE Return(PyDict(request_info(request)), request,
                Append(calls, UserMatchCall(request, ans)))

\* lines 167-188
claims_before_silent(request, ans) ==
    LET parsed == parse_claims(request.claims)
        silent == silent_checks([request EXCEPT !.claims = parsed.value], ans)
    IN IF parsed.raised # "" THEN Raise(parsed.raised, "", request, <<>>)
       ELSE IF silent.raised # ""
       THEN Raise(silent.raised, "", [request EXCEPT !.claims = parsed.value], silent.calls)
       ELSE match_user([request EXCEPT !.claims = parsed.value], ans, silent.calls)

silent_and_claims_defaulting(request, ans) ==
    LET silent == silent_checks(request, ans)
        parsed == parse_claims(request.claims)
    IN IF silent.raised # "" THEN Raise(silent.raised, "", request, silent.calls)
       ELSE IF parsed.raised # ""
       THEN Raise(parsed.raised, "", [request EXCEPT !.claims = EmptyDict], silent.calls)
       ELSE match_user([request EXCEPT !.claims = parsed.value], ans, silent.calls)

silent_and_claims(request, ans) ==
    LET silent == silent_checks(request, ans)
        parsed == parse_claims(request.claims)
    IN IF silent.raised # "" THEN Raise(silent.raised, "", request, silent.calls)
       ELSE IF parsed.raised # "" THEN Raise(parsed.raised, "", request, silent.calls)
       ELSE match_user([request EXCEPT !.claims = parsed.value], ans, silent.calls)

\* lines 163-188
checks_ignoring_hint(request, ans) == silent_and_claims(request, ans)

openid_checks(request, ans) ==
    IF request.prompt = PyStr(NoneText) /\ ~Truthy(request.id_token_hint)
    THEN Raise("InvalidRequestError", MsgHintMissing, request, <<>>)
    ELSE silent_and_claims(request, ans)

validator_ignoring_scopes(request, ans) == openid_checks(request, ans)

openid_authorization_validator(request, ans) ==
    IF "openid" \notin request.scopes THEN Return(PyNone, request, <<>>)
    ELSE openid_checks(request, ans)

\* the token modifier: the token itself for a plain OAuth2 request; the
\* function body ends after the scope test, so any other call returns None
add_id_token(token, request) ==
    IF "openid" \notin request.scopes THEN token ELSE PyNone

\* ------------------------------------------------------- grant engines
\* AuthorizationCodeGrant / ImplicitGrant as the composers use them: three
\* hook registries, filled by the register_* calls in registration order
NoEngine ==
    [cls |-> "none", request_validator |-> "None", response_types |-> <<>>,
     authorization_validators |-> <<>>, token_modifiers |-> <<>>]

NewEngine(cls, request_validator) ==
    [NoEngine EXCEPT !.cls = cls, !.request_validator = request_validator]

register_response_type(engine, response_type) ==
    [engine EXCEPT !.response_types = Append(@, response_type)]

register_authorization_validator(engine, validator) ==
    [engine EXCEPT !.authorization_validators = Append(@, validator)]

register_token_modifier(engine, modifier) ==
    [engine EXCEPT !.token_modifiers = Append(@, modifier)]

\* the methods this file defines on each composer class (own and inherited
\* from OpenIDConnectBase)
BaseMethods == {"add_id_token", "openid_authorization_validator"}

ImplicitMethods == BaseMethods \cup {"openid_implicit_authorization_validator"}

NoComposer ==
    [cls |-> "none", status |-> "absent", request_validator |-> "None",
     auth_code |-> NoEngine, implicit |-> NoEngine]

\* request_validator or RequestValidator()
validator_or_default(request_validator) ==
    IF request_validator = "None" THEN "RequestValidator()" ELSE request_validator

\* OpenIDConnectAuthCode.__init__
AuthCode_init_registering_twice(request_validator) ==
    LET e0 == NewEngine("AuthorizationCodeGrant", request_validator)
        e1 == register_authorization_validator(e0, "openid_authorization_validator")
        e2 == register_token_modifier(e1, "add_id_token")
        e3 == register_token_modifier(e2, "add_id_token")
    IN [NoComposer EXCEPT !.cls = "OpenIDConnectAuthCode", !.status = "built",
                          !.request_validator = validator_or_default(request_validator),
                          !.auth_code = e3]

OpenIDConnectAuthCode_init(request_validator) ==
    LET e0 == NewEngine("AuthorizationCodeGrant", request_validator)
        e1 == register_authorization_validator(e0, "openid_authorization_validator")
        e2 == register_token_modifier(e1, "add_id_token")
    IN [NoComposer EXCEPT !.cls = "OpenIDConnectAuthCode", !.status = "built",
                          !.request_validator = validator_or_default(request_validator),
                          !.auth_code = e2]

\* OpenIDConnectImplicit.__init__; inherited is the set of method names
\* the composer gets from GrantTypeBase. self.create_id_token is looked
\* up when line 235 is evaluated and raises AttributeError when no class
\* of the composer defines it.
OpenIDConnectImplicit_init(request_validator, inherited) ==
    LET e0 == NewEngine("ImplicitGrant", request_validator)
        e1 == register_response_type(e0, "id_token")
        e2 == register_response_type(e1, "id_token token")
        e3 == register_authorization_validator(e2, "openid_authorization_validator")
        e4 == register_authorization_validator(e3, "openid_implicit_authorization_validator")
        partial == [NoComposer EXCEPT !.cls = "OpenIDConnectImplicit",
                          !.request_validator = validator_or_default(request_validator),
                          !.implicit = e4]
    IN IF "create_id_token" \in ImplicitMethods \cup inherited
       THEN [partial EXCEPT !.status = "built",
                            !.implicit = register_token_modifier(e4, "create_id_token")]
       ELSE [partial EXCEPT !.status = "AttributeError"]

\* OpenIDConnectHybrid derives from OpenIDConnectBase only
HybridMethods == BaseMethods

\* OpenIDConnectHybrid.__init__: the auth-code engine is wired first (lines
\* 251-258), then the implicit engine; self.openid_implicit_authorization_validator
\* is looked up when lines 266-267 are evaluated and self.create_id_token
\* when line 268 is, each raising AttributeError when no class of the
\* composer defines the name.
OpenIDConnectHybrid_init(request_validator, inherited) ==
    LET a0 == NewEngine("AuthorizationCodeGrant", request_validator)
        a1 == register_response_type(a0, "code id_token")
        a2 == register_response_type(a1, "code token")
        a3 == register_response_type(a2, "code id_token token")
        a4 == register_authorization_validator(a3, "openid_authorization_validator")
        a5 == register_token_modifier(a4, "add_id_token")
        i0 == NewEngine("ImplicitGrant", request_validator)
        i1 == register_response_type(i0, "id_token")
        i2 == register_response_type(i1, "id_token token")
        i3 == register_authorization_validator(i2, "openid_authorization_validator")
        i4 == register_authorization_validator(i3, "openid_implicit_authorization_validator")
        partial == [NoComposer EXCEPT !.cls = "OpenIDConnectHybrid",
                          !.request_validator = validator_or_default(request_validator),
                          !.auth_code = a5]
    IN IF "openid_implicit_authorization_validator" \notin HybridMethods \cup inherited
       THEN [partial EXCEPT !.status = "AttributeError", !.implicit = i3]
       ELSE IF "create_id_token" \notin HybridMethods \cup inherited
       THEN [partial EXCEPT !.status = "AttributeError", !.implicit = i4]
       ELSE [partial EXCEPT !.status = "built",
                            !.implicit = register_token_modifier(i4, "create_id_token")]

\* OpenIDConnectImplicit.openid_implicit_authorization_validator: returns
\* None on either path and touches nothing
openid_implicit_authorization_validator(request) ==
    IF request.response_type = "token"
    THEN Return(PyNone, request, <<>>)
    ELSE Return(PyNone, request, <<>>)

\* a registered authorization validator, called by name
CallValidator(name, request, ans) ==
    IF name = "openid_authorization_validator"
    THEN openid_authorization_validator(request, ans)
    ELSE openid_implicit_authorization_validator(request)

\* a registered token modifier, called by name
CallModifier(name, token, request) ==
    IF name = "add_id_token" THEN add_id_token(token, request) ELSE token

\* the engine's validate_authorization_request: the registered validators
\* run in registration order on the one request, a raise ends the call, the
\* request infos returned are merged; the registries are only read
RECURSIVE RunValidators(_, _, _, _, _)
RunValidators(validators, request, ans, info, calls) ==
    IF validators = <<>>
    THEN Return([t |-> "tuple", v |-> [scopes |-> request.scopes, info |-> info]],
                request, calls)
    ELSE LET res == CallValidator(Head(validators), request, ans)
         IN IF res.raised # ""
            THEN Raise(res.raised, res.description, res.request, calls \o res.calls)
            ELSE RunValidators(Tail(validators), res.request, ans,
                               IF res.value = PyNone THEN info ELSE res.value,
                               calls \o res.calls)

\* engine delegates answer with the call's result and the engine as the
\* call left it
WithEngine(res, engine) ==
    [raised |-> res.raised, description |-> res.description, value |-> res.value,
     request |-> res.request, calls |-> res.calls, engine |-> engine]

engine_validate_authorization_request(engine, request, ans) ==
    WithEngine(RunValidators(engine.authorization_validators, request, ans,
                             EmptyDict, <<>>), engine)

\* the engine's create_token_response: the issued token goes through the
\* registered token modifiers in registration order
RECURSIVE RunModifiers(_, _, _)
RunModifiers(modifiers, token, request) ==
    IF modifiers = <<>> THEN token
    ELSE RunModifiers(Tail(modifiers), CallModifier(Head(modifiers), token, request),
                      request)

engine_create_token_response(engine, request, token) ==
    WithEngine(Return(RunModifiers(engine.token_modifiers, token, request),
                      request, <<>>), engine)

\* the engine's create_authorization_response: the grant is issued by the
\* engine; hooks and request are left alone
engine_create_authorization_response(engine, request) ==
    WithEngine(Return(PyDict([code |-> PyStr(<<"c">>)]), request, <<>>), engine)

\* OpenIDConnectAuthCode.create_authorization_response
create_authorization_response(self, request) ==
    engine_create_authorization_response(self.auth_code, request)

\* OpenIDConnectAuthCode.create_token_response
create_token_response(self, request, token) ==
    engine_create_token_response(self.auth_code, request, token)

\* OpenIDConnectAuthCode.validate_authorization_request
validate_authorization_request(self, request, ans) ==
    engine_validate_authorization_request(self.auth_code, request, ans)

\* ------------------------------------------------------------- inputs
Alphabet == {"a", " "}

RECURSIVE Texts(_)
Texts(n) ==
    IF n = 0 THEN {<<>>}
    ELSE Texts(n - 1) \cup {Append(s, c) : s \in {x \in Texts(n - 1) : Len(x) = n - 1}, c \in Alphabet}

PromptValues ==
    {PyNone, PyStr(<<>>), PyStr(NoneText), PyStr(NoneText \o <<" ">>),
     PyStr(<<"a", " ", " ", "b", "\t", "a">>)}

UiLocalesValues == {PyNone} \cup {PyStr(s) : s \in Texts(MaxLen)}

HintValues == {PyNone, PyStr(<<>>), PyStr(<<"h">>)}

ClaimsValues ==
    {PyNone, PyStr(<<>>),
     PyStr(<<"{", "}">>),
     PyStr(<<" ", "{", "\"", "a", "\"", ":", " ", "1", "}">>),
     PyStr(<<"{", "\"", "a", "\"", ":">>),
     PyStr(<<"[", "1", "]">>)}

\* requests that exercise the checks of the pipeline
CheckRequests ==
    [scopes : SUBSET {"openid", "profile"},
     prompt : PromptValues,
     display : {PyNone},
     ui_locales : {PyNone},
     id_token_hint : HintValues,
     login_hint : {PyNone},
     claims : ClaimsValues,
     response_type : {"token", "id_token"}]

\* requests that exercise the fields the request info is built from
InfoRequests ==
    [scopes : {{"openid"}},
     prompt : {PyNone, PyStr(NoneText \o <<" ">>),
               PyStr(<<"a", " ", " ", "b", "\t", "a">>)},
     display : {PyNone, PyStr(<<"p">>)},
     ui_locales : UiLocalesValues,
     id_token_hint : {PyStr(<<"h">>)},
     login_hint : {PyNone, PyStr(<<"u">>)},
     claims : {PyStr(<<"{", "}">>)},
     response_type : {"id_token"}]

Requests == CheckRequests \cup InfoRequests

Answers == [login : BOOLEAN, authz : BOOLEAN, match : BOOLEAN]

Tokens ==
    {PyDict([access_token |-> PyStr(<<"a">>)]),
     PyDict([access_token |-> PyStr(<<"a">>), refresh_token |-> PyStr(<<"b">>)])}

\* --------------------------------------------------------------- state
VARIABLES composer, live, request, before, last, validated, procs

vars == <<composer, live, request, before, last, validated, procs>>

NoAnswers == [login |-> FALSE, authz |-> FALSE, match |-> FALSE]

\* last: the latest call on the composer and how it ended
NoCall ==
    [op |-> "none", raised |-> "", description |-> "", value |-> PyNone,
     calls |-> <<>>, ans |-> NoAnswers, token |-> PyNone, engine |-> "none"]

\* validated: the latest successful validation of the live request that
\* came before the latest call: the request info it returned, the answers
\* it got and the claims it left on the request
NoValidation ==
    [ok |-> FALSE, value |-> PyNone, ans |-> NoAnswers, claims |-> PyNone]

Remember ==
    IF last.op = "openid_authorization_validator" /\ last.raised = ""
          /\ last.value # PyNone
    THEN [ok |-> TRUE, value |-> last.value, ans |-> last.ans,
          claims |-> request.claims]
    ELSE IF last.op = "validate_authorization_request" /\ last.raised = ""
               /\ last.value.v.info # EmptyDict
    THEN [ok |-> TRUE, value |-> last.value.v.info, ans |-> last.ans,
          claims |-> request.claims]
    ELSE validated

InitialRequest ==
    [scopes |-> {}, prompt |-> PyNone, display |-> PyNone, ui_locales |-> PyNone,
     id_token_hint |-> PyNone, login_hint |-> PyNone, claims |-> PyNone,
     response_type |-> "token"]

Init ==
    /\ composer = NoComposer
    /\ live = FALSE
    /\ request = InitialRequest
    /\ before = InitialRequest
    /\ last = NoCall
    /\ validated = NoValidation
    /\ procs = <<>>

ConstructAuthCode ==
    /\ composer.cls = "none"
    /\ \E rv \in {"None", "validator"} :
          composer' = OpenIDConnectAuthCode_init(rv)
    /\ UNCHANGED <<live, request, before, last, validated>>
    /\ UNCHANGED procs

ConstructImplicit ==
    /\ composer.cls = "none"
    /\ \E rv \in {"None", "validator"}, inherited \in {{}, {"create_id_token"}} :
          composer' = OpenIDConnectImplicit_init(rv, inherited)
    /\ UNCHANGED <<live, request, before, last, validated>>
    /\ UNCHANGED procs

ConstructHybrid ==
    /\ composer.cls = "none"
    /\ \E rv \in {"None", "validator"}, inherited \in {{}, {"create_id_token"}} :
          composer' = OpenIDConnectHybrid_init(rv, inherited)
    /\ UNCHANGED <<live, request, before, last, validated>>
    /\ UNCHANGED procs

\* the transport layer hands a fresh request to the composer
NewRequest ==
    /\ composer.status = "built"
    /\ ~live
    /\ live' = TRUE
    /\ \E r \in Requests :
          /\ request' = r
          /\ before' = r
    /\ last' = NoCall
    /\ validated' = NoValidation
    /\ UNCHANGED composer
    /\ UNCHANGED procs

\* the call stack that owned the request ends
EndRequest ==
    /\ live
    /\ live' = FALSE
    /\ request' = InitialRequest
    /\ before' = InitialRequest
    /\ last' = NoCall
    /\ validated' = NoValidation
    /\ UNCHANGED composer
    /\ UNCHANGED procs

Validate ==
    /\ live
    /\ \E ans \in Answers :
          LET res == openid_authorization_validator(request, ans)
          IN /\ request' = res.request
             /\ last' = [op |-> "openid_authorization_validator",
                          raised |-> res.raised, description |-> res.description,
                          value |-> res.value, calls |-> res.calls,
                          ans |-> ans, token |-> PyNone, engine |-> "none"]
    /\ before' = request
    /\ validated' = Remember
    /\ UNCHANGED <<composer, live>>
    /\ UNCHANGED procs

AddIdToken ==
    /\ live
    /\ \E token \in Tokens :
          last' = [NoCall EXCEPT !.op = "add_id_token",
                                 !.value = add_id_token(token, request),
                                 !.token = token]
    /\ before' = request
    /\ validated' = Remember
    /\ UNCHANGED <<composer, live, request>>
    /\ UNCHANGED procs

\* the three methods of the auth-code composer, each a call of the engine
DelegateResult(op, res, ans, token) ==
    [op |-> op, raised |-> res.raised, description |-> res.description,
     value |-> res.value, calls |-> res.calls, ans |-> ans, token |-> token,
     engine |-> res.engine.cls]

CreateAuthorizationResponse ==
    /\ live
    /\ composer.cls = "OpenIDConnectAuthCode"
    /\ LET res == create_authorization_response(composer, request)
       IN /\ composer' = [composer EXCEPT !.auth_code = res.engine]
          /\ request' = res.request
          /\ last' = DelegateResult("create_authorization_response", res,
                                    NoAnswers, PyNone)
    /\ before' = request
    /\ validated' = Remember
    /\ UNCHANGED live
    /\ UNCHANGED procs

CreateTokenResponse ==
    /\ live
    /\ composer.cls = "OpenIDConnectAuthCode"
    /\ \E token \in Tokens :
          LET res == create_token_response(composer, request, token)
          IN /\ composer' = [composer EXCEPT !.auth_code = res.engine]
             /\ request' = res.request
             /\ last' = DelegateResult("create_token_response", res, NoAnswers, token)
    /\ before' = request
    /\ validated' = Remember
    /\ UNCHANGED live
    /\ UNCHANGED procs

ValidateAuthorizationRequest ==
    /\ live
    /\ composer.cls = "OpenIDConnectAuthCode"
    /\ \E ans \in Answers :
          LET res == validate_authorization_request(composer, request, ans)
          IN /\ composer' = [composer EXCEPT !.auth_code = res.engine]
             /\ request' = res.request
             /\ last' = DelegateResult("validate_authorization_request", res,
                                       ans, PyNone)
    /\ before' = request
    /\ validated' = Remember
    /\ UNCHANGED live
    /\ UNCHANGED procs

Next ==
    \/ ConstructAuthCode
    \/ ConstructImplicit
    \/ ConstructHybrid
    \/ NewRequest
    \/ EndRequest
    \/ Validate
    \/ AddIdToken
    \/ CreateAuthorizationResponse
    \/ CreateTokenResponse
    \/ ValidateAuthorizationRequest

Spec == Init /\ [][Next]_vars

\* ------------------------------------------- calls in flight together
\* Two requests are inside openid_authorization_validator of one composer
\* at the same time; a step is one statement of the method.  procs[i] is
\* call i: its place in the method, its request object, the request as it
\* arrived, the answers the request validator has for that request, and the
\* result so far.
Procs == {1, 2}

ConcBase ==
    [InitialRequest EXCEPT !.scopes = {"openid"}, !.id_token_hint = PyStr(<<"h">>)]

ConcRequests ==
    {[ConcBase EXCEPT !.prompt = PyStr(NoneText),
                      !.claims = PyStr(<<"{", "\"", "a", "\"", ":", "1", "}">>)],
     [ConcBase EXCEPT !.prompt = PyStr(NoneText), !.claims = PyStr(<<"{">>)],
     ConcBase,
     [ConcBase EXCEPT !.prompt = PyStr(NoneText), !.id_token_hint = PyNone],
     [ConcBase EXCEPT !.scopes = {"profile"}, !.claims = PyStr(<<"{", "}">>)]}

NewProc(r, ans) ==
    [pc |-> "scope", request |-> r, arrived |-> r, ans |-> ans,
     raised |-> "", description |-> "", value |-> PyNone, calls |-> <<>>,
     token |-> PyNone]

InitConc ==
    /\ composer = OpenIDConnectAuthCode_init("validator")
    /\ live = FALSE
    /\ request = InitialRequest
    /\ before = InitialRequest
    /\ last = NoCall
    /\ validated = NoValidation
    /\ procs \in [Procs -> {NewProc(r, ans) : r \in ConcRequests, ans \in Answers}]

\* the request object an assignment `request.claims = ...` of call i writes
OtherCallsRequest(i) == 1

AssignedRequest(i) == i

Goto(i, pc) == procs' = [procs EXCEPT ![i].pc = pc]

Fails(i, error, description) ==
    procs' = [procs EXCEPT ![i].pc = "done", ![i].raised = error,
                           ![i].description = description]

Records(i, call, pc) ==
    procs' = [procs EXCEPT ![i].pc = pc, ![i].calls = Append(@, call)]

RecordsAndFails(i, call, error, description) ==
    procs' = [procs EXCEPT ![i].pc = "done", ![i].calls = Append(@, call),
                           ![i].raised = error, ![i].description = description]

ConcFrame == UNCHANGED <<composer, live, request, before, last, validated>>

\* lines 160-161
ScopeTest(i) ==
    /\ procs[i].pc = "scope"
    /\ IF "openid" \notin procs[i].request.scopes THEN Goto(i, "done")
       ELSE Goto(i, "hint")
    /\ ConcFrame

\* lines 163-167
HintTest(i) ==
    /\ procs[i].pc = "hint"
    /\ IF procs[i].request.prompt = PyStr(NoneText)
             /\ ~Truthy(procs[i].request.id_token_hint)
       THEN Fails(i, "InvalidRequestError", MsgHintMissing)
       ELSE IF procs[i].request.prompt = PyStr(NoneText) THEN Goto(i, "login")
       ELSE Goto(i, "claims")
    /\ ConcFrame

\* lines 168-169
SilentLogin(i) ==
    /\ procs[i].pc = "login"
    /\ LET call == Call("validate_silent_login", [request |-> procs[i].request],
                        procs[i].ans.login)
       IN IF ~procs[i].ans.login THEN RecordsAndFails(i, call, "LoginRequired", "")
          ELSE Records(i, call, "authz")
    /\ ConcFrame

\* lines 170-171
SilentAuthorization(i) ==
    /\ procs[i].pc = "authz"
    /\ LET call == Call("validate_silent_authorization",
                        [request |-> procs[i].request], procs[i].ans.authz)
       IN IF ~procs[i].ans.authz THEN RecordsAndFails(i, call, "ConsentRequired", "")
          ELSE Records(i, call, "claims")
    /\ ConcFrame

\* line 173
ClaimsAssignment(i) ==
    /\ procs[i].pc = "claims"
    /\ LET parsed == parse_claims(procs[i].request.claims)
       IN IF parsed.raised # "" THEN Fails(i, parsed.raised, "")
          ELSE procs' = [procs EXCEPT ![i].pc = "match",
                                      ![AssignedRequest(i)].request.claims =
                                          parsed.value]
    /\ ConcFrame

\* lines 175-178
UserMatch(i) ==
    /\ procs[i].pc = "match"
    /\ LET call == UserMatchCall(procs[i].request, procs[i].ans)
       IN IF ~procs[i].ans.match
          THEN RecordsAndFails(i, call, "LoginRequired", MsgUserMismatch)
          ELSE Records(i, call, "info")
    /\ ConcFrame

\* lines 180-188
BuildInfo(i) ==
    /\ procs[i].pc = "info"
    /\ procs' = [procs EXCEPT ![i].pc = "done",
                              ![i].value = PyDict(request_info(procs[i].request))]
    /\ ConcFrame

\* lines 19-25, called for the request once its validation is over
Augment(i) ==
    /\ procs[i].pc = "done"
    /\ procs' = [procs EXCEPT ![i].pc = "end",
                              ![i].token = add_id_token(
                                  PyDict([access_token |-> PyStr(<<"a">>)]),
                                  procs[i].request)]
    /\ ConcFrame

NextConc ==
    \E i \in Procs :
        \/ ScopeTest(i)
        \/ HintTest(i)
        \/ SilentLogin(i)
        \/ SilentAuthorization(i)
        \/ ClaimsAssignment(i)
        \/ UserMatch(i)
        \/ BuildInfo(i)
        \/ Augment(i)

SpecConc == InitConc /\ [][NextConc]_vars

\* ---------------------------------------------------------- properties
ValidatorRan == last.op = "openid_authorization_validator"

AugmentorRan == last.op = "add_id_token"

PromptIsNone(r) == r.prompt = PyStr(NoneText)

\* the names of the request-validator methods called, in call order
CallNames == [i \in 1..Len(last.calls) |-> last.calls[i].fn]

Called(fn) == \E i \in 1..Len(last.calls) : last.calls[i].fn = fn

Returned(fn, result) ==
    \E i \in 1..Len(last.calls) :
        last.calls[i].fn = fn /\ last.calls[i].result = result

\* C1: for a request whose scopes lack "openid" the validator returns None
\* without raising, calls no request-validator method and leaves every
\* request field as it was, and add_id_token returns the token it was given.
C1_NoOpenidIsNoOp ==
    /\ (ValidatorRan /\ "openid" \notin before.scopes) =>
          /\ last.raised = ""
          /\ last.value = PyNone
          /\ last.calls = <<>>
          /\ request = before
    /\ (AugmentorRan /\ "openid" \notin before.scopes) =>
          /\ last.value = last.token
          /\ request = before

C1_Witness ==
    /\ ValidatorRan
    /\ "openid" \notin before.scopes
    /\ PromptIsNone(before)
    /\ ~Truthy(before.id_token_hint)
    /\ before.claims = PyStr(<<"{", "\"", "a", "\"", ":">>)
    /\ ~last.ans.login

\* C2 as stated: prompt "none" with an empty or absent id_token_hint always
\* ends in InvalidRequestError, whatever the other request fields are.
C2_Original ==
    (ValidatorRan /\ PromptIsNone(before) /\ ~Truthy(before.id_token_hint)) =>
        last.raised = "InvalidRequestError"

\* C2 amended: for a request whose scopes contain "openid", prompt "none"
\* with an empty or absent id_token_hint always ends in InvalidRequestError,
\* whatever the other fields and the request validator's answers are; no
\* request-validator method is called.
C2_OpenidHintMissing ==
    (/\ ValidatorRan
     /\ "openid" \in before.scopes
     /\ PromptIsNone(before)
     /\ ~Truthy(before.id_token_hint)) =>
        /\ last.raised = "InvalidRequestError"
        /\ last.description = MsgHintMissing
        /\ last.calls = <<>>

C2_Witness ==
    /\ ValidatorRan
    /\ before.scopes = {"openid", "profile"}
    /\ PromptIsNone(before)
    /\ before.id_token_hint = PyStr(<<>>)
    /\ last.ans = [login |-> TRUE, authz |-> TRUE, match |-> TRUE]
    /\ last.raised = "InvalidRequestError"

\* C3: with prompt "none" and an id_token_hint, when validate_silent_login
\* returns false the run ends in LoginRequired and
\* validate_silent_authorization is not called; ConsentRequired is raised
\* only after validate_silent_login was called and returned true.
C3_LoginBeforeConsent ==
    ValidatorRan =>
        /\ (/\ PromptIsNone(before)
            /\ Truthy(before.id_token_hint)
            /\ Returned("validate_silent_login", FALSE)) =>
              /\ last.raised = "LoginRequired"
              /\ ~Called("validate_silent_authorization")
        /\ (/\ "openid" \in before.scopes
            /\ PromptIsNone(before)
            /\ Truthy(before.id_token_hint)
            /\ ~last.ans.login) =>
              /\ last.raised = "LoginRequired"
              /\ CallNames = <<"validate_silent_login">>
        /\ last.raised = "ConsentRequired" =>
              /\ Len(last.calls) >= 1
              /\ last.calls[1].fn = "validate_silent_login"
              /\ last.calls[1].result = TRUE

C3_Witness ==
    /\ ValidatorRan
    /\ PromptIsNone(before)
    /\ Truthy(before.id_token_hint)
    /\ Returned("validate_silent_login", FALSE)
    /\ ~last.ans.authz
    /\ last.raised = "LoginRequired"

\* C4: with prompt "none", when validate_silent_login returns true and
\* validate_silent_authorization returns false the run ends in
\* ConsentRequired (not LoginRequired, no request info) and
\* validate_user_match is not called.
C4_ConsentRequired ==
    ValidatorRan =>
        /\ (/\ PromptIsNone(before)
            /\ Returned("validate_silent_login", TRUE)
            /\ Returned("validate_silent_authorization", FALSE)) =>
              /\ last.raised = "ConsentRequired"
              /\ last.value = PyNone
              /\ ~Called("validate_user_match")
        /\ (/\ "openid" \in before.scopes
            /\ PromptIsNone(before)
            /\ Truthy(before.id_token_hint)
            /\ last.ans.login
            /\ ~last.ans.authz) =>
              /\ last.raised = "ConsentRequired"
              /\ CallNames = <<"validate_silent_login", "validate_silent_authorization">>

C4_Witness ==
    /\ ValidatorRan
    /\ PromptIsNone(before)
    /\ Returned("validate_silent_login", TRUE)
    /\ Returned("validate_silent_authorization", FALSE)
    /\ ~last.ans.match
    /\ last.raised = "ConsentRequired"

\* the request text did not decode: json.loads raised on the claims
ClaimsUnparsable(r) == Truthy(r.claims) /\ loads(r.claims).raised # ""

SilentNames(r) ==
    IF PromptIsNone(r)
    THEN <<"validate_silent_login", "validate_silent_authorization">>
    ELSE <<>>

\* C5: for an openid request the outcome is that of the first failing check
\* in the order hint, silent login, silent authorization, claims parse, user
\* match; the request-validator methods called are exactly those of the
\* checks up to that one, in that order, and a request info is returned
\* only when every check passes.
C5_FirstFailingCheck ==
    (ValidatorRan /\ "openid" \in before.scopes) =>
        IF PromptIsNone(before) /\ ~Truthy(before.id_token_hint)
        THEN last.raised = "InvalidRequestError" /\ CallNames = <<>>
        ELSE IF PromptIsNone(before) /\ ~last.ans.login
        THEN /\ last.raised = "LoginRequired"
             /\ last.description = ""
             /\ CallNames = <<"validate_silent_login">>
        ELSE IF PromptIsNone(before) /\ ~last.ans.authz
        THEN /\ last.raised = "ConsentRequired"
             /\ CallNames = SilentNames(before)
        ELSE IF ClaimsUnparsable(before)
        THEN /\ last.raised \in {"ValueError", "TypeError"}
             /\ CallNames = SilentNames(before)
        ELSE IF ~last.ans.match
        THEN /\ last.raised = "LoginRequired"
             /\ last.description = MsgUserMismatch
             /\ CallNames = SilentNames(before) \o <<"validate_user_match">>
        ELSE /\ last.raised = ""
             /\ last.value.t = "dict"
             /\ CallNames = SilentNames(before) \o <<"validate_user_match">>

\* several checks fail at once; the earliest of them decides
C5_Witness ==
    /\ ValidatorRan
    /\ "openid" \in before.scopes
    /\ PromptIsNone(before)
    /\ Truthy(before.id_token_hint)
    /\ ~last.ans.authz
    /\ ClaimsUnparsable(before)
    /\ ~last.ans.match
    /\ last.raised = "ConsentRequired"

\* the run got past the prompt=none checks of lines 163-171
PassedPromptChecks ==
    /\ ValidatorRan
    /\ "openid" \in before.scopes
    /\ PromptIsNone(before) =>
          Truthy(before.id_token_hint) /\ last.ans.login /\ last.ans.authz

UserMatchCalls == SelectSeq(last.calls, LAMBDA c : c.fn = "validate_user_match")

\* C6 as stated: every openid request that passes the prompt=none checks
\* has validate_user_match called exactly once.
C6_Original == PassedPromptChecks => Len(UserMatchCalls) = 1

\* C6 amended: for every openid request that passes the prompt=none checks
\* and whose claims are absent, empty or decode as JSON, validate_user_match
\* is called exactly once, with the request's id_token_hint, its scopes and
\* the already-decoded claims (the empty mapping for absent or empty
\* claims); when it returns false the run ends in LoginRequired and no
\* request info is produced.  When the claims do not decode,
\* validate_user_match is not called.
C6_UserMatchOnce ==
    PassedPromptChecks =>
        IF ClaimsUnparsable(before) THEN UserMatchCalls = <<>>
        ELSE /\ Len(UserMatchCalls) = 1
             /\ UserMatchCalls[1].args.id_token_hint = before.id_token_hint
             /\ UserMatchCalls[1].args.scopes = before.scopes
             /\ UserMatchCalls[1].args.claims = request.claims
             /\ UserMatchCalls[1].args.request = request
             /\ (Truthy(before.claims) => before.claims.t = "str")
             /\ (~Truthy(before.claims) => UserMatchCalls[1].args.claims = EmptyDict)
             /\ (Truthy(before.claims) => UserMatchCalls[1].args.claims # before.claims)
             /\ (~UserMatchCalls[1].result =>
                    /\ last.raised = "LoginRequired"
                    /\ last.description = MsgUserMismatch
                    /\ last.value = PyNone)

C6_Witness ==
    /\ PassedPromptChecks
    /\ ~PromptIsNone(before)
    /\ before.claims = PyStr(<<" ", "{", "\"", "a", "\"", ":", " ", "1", "}">>)
    /\ Len(UserMatchCalls) = 1
    /\ UserMatchCalls[1].args.claims = PyDict(DictSet(<<>>, <<"a">>, PyInt(<<"1">>)))
    /\ ~UserMatchCalls[1].result
    /\ last.raised = "LoginRequired"

\* the positions of text s where a token starts / the position where the
\* token that starts at p ends
TokenStarts(s) ==
    {p \in 1..Len(s) : s[p] \notin Whitespace /\ (p = 1 \/ s[p - 1] \in Whitespace)}

TokenEnd(s, p) ==
    CHOOSE e \in p..Len(s) :
        /\ \A k \in p..e : s[k] \notin Whitespace
        /\ e = Len(s) \/ s[e + 1] \in Whitespace

\* toks are the maximal whitespace-free runs of field x, in their order;
\* no token for an absent or empty field
IsTokensOf(toks, x) ==
    IF x.t # "str" THEN toks = <<>>
    ELSE /\ Len(toks) = Cardinality(TokenStarts(x.v))
         /\ \A p \in TokenStarts(x.v) :
               toks[Cardinality({q \in TokenStarts(x.v) : q < p}) + 1]
                   = SubSeq(x.v, p, TokenEnd(x.v, p))

\* C7: a returned request info has prompt and ui_locales equal to the
\* whitespace-separated tokens of the request's fields in their order (the
\* empty sequence for an absent or empty field) and display, id_token_hint
\* and login_hint as the request has them.
C7_RequestInfo ==
    (ValidatorRan /\ last.raised = "" /\ last.value # PyNone) =>
        /\ last.value.t = "dict"
        /\ DOMAIN last.value.v =
              {"display", "prompt", "ui_locales", "id_token_hint", "login_hint"}
        /\ IsTokensOf(last.value.v.prompt, before.prompt)
        /\ IsTokensOf(last.value.v.ui_locales, before.ui_locales)
        /\ last.value.v.display = before.display
        /\ last.value.v.id_token_hint = before.id_token_hint
        /\ last.value.v.login_hint = before.login_hint

C7_Witness ==
    /\ ValidatorRan
    /\ last.raised = ""
    /\ last.value # PyNone
    /\ last.value.v.prompt = << <<"a">>, <<"b">>, <<"a">> >>
    /\ before.ui_locales = PyStr(<<" ", "a", " ">>)
    /\ last.value.v.ui_locales = << <<"a">> >>
    /\ last.value.v.display = PyStr(<<"p">>)

\* C8 as stated: after any run of the validator request.claims is a mapping.
C8_Original == ValidatorRan => request.claims.t = "dict"

\* C8 amended: after a run that gets past claims parsing (it returns a
\* request info or fails on the user match) request.claims is the value
\* decoded from the claims text: the empty mapping when claims was absent or
\* empty, a mapping when the text is a JSON object, and never the raw JSON
\* string; after a no-op or any earlier failure request.claims is what it
\* was before the call.
C8_ClaimsAfterRun ==
    ValidatorRan =>
        IF Called("validate_user_match")
        THEN /\ ~Truthy(before.claims) => request.claims = EmptyDict
             /\ Truthy(before.claims) =>
                   /\ before.claims.t = "str"
                   /\ request.claims # before.claims
                   /\ At(before.claims.v, SkipWs(before.claims.v, 1)) = "{"
                         => request.claims.t = "dict"
             /\ before.claims = PyStr(<<"{", "}">>) => request.claims = EmptyDict
             /\ before.claims = PyStr(<<"[", "1", "]">>) =>
                   request.claims = PyList(<<PyInt(<<"1">>)>>)
        ELSE request.claims = before.claims

C8_Witness ==
    /\ ValidatorRan
    /\ Called("validate_user_match")
    /\ before.claims = PyStr(<<" ", "{", "\"", "a", "\"", ":", " ", "1", "}">>)
    /\ request.claims = PyDict(DictSet(<<>>, <<"a">>, PyInt(<<"1">>)))
    /\ last.raised = ""

\* C9: for a request whose scopes contain "openid", add_id_token returns a
\* token response: the given token with an identity token attached, every
\* field of the given token kept.
C9_IdTokenAttached ==
    (AugmentorRan /\ "openid" \in before.scopes) =>
        /\ last.value.t = "dict"
        /\ "id_token" \in DOMAIN last.value.v
        /\ \A k \in DOMAIN last.token.v :
              k \in DOMAIN last.value.v /\ last.value.v[k] = last.token.v[k]

\* C10: constructing OpenIDConnectImplicit completes; its implicit engine
\* has the response types "id_token" and "id_token token", the validators
\* openid_authorization_validator and openid_implicit_authorization_validator
\* in that order, and add_id_token as token modifier.
C10_ImplicitComposed ==
    composer.cls = "OpenIDConnectImplicit" =>
        /\ composer.status = "built"
        /\ composer.implicit.response_types = <<"id_token", "id_token token">>
        /\ composer.implicit.authorization_validators =
              <<"openid_authorization_validator",
                "openid_implicit_authorization_validator">>
        /\ composer.implicit.token_modifiers = <<"add_id_token">>

\* C11: constructing OpenIDConnectHybrid completes with an auth-code engine
\* holding the response types "code id_token", "code token" and
\* "code id_token token", the pipeline as authorization validator and
\* add_id_token as token modifier, and an implicit engine holding
\* "id_token" and "id_token token" and the validators
\* openid_authorization_validator and
\* openid_implicit_authorization_validator, in that order.
C11_HybridComposed ==
    composer.cls = "OpenIDConnectHybrid" =>
        /\ composer.status = "built"
        /\ composer.auth_code.response_types =
              <<"code id_token", "code token", "code id_token token">>
        /\ composer.auth_code.authorization_validators =
              <<"openid_authorization_validator">>
        /\ composer.auth_code.token_modifiers = <<"add_id_token">>
        /\ composer.implicit.response_types = <<"id_token", "id_token token">>
        /\ composer.implicit.authorization_validators =
              <<"openid_authorization_validator",
                "openid_implicit_authorization_validator">>

Count(seq, x) == Len(SelectSeq(seq, LAMBDA y : y = x))

AuthCodeMethods ==
    {"create_authorization_response", "create_token_response",
     "validate_authorization_request"}

\* C12: the engine of a constructed auth-code composer holds the pipeline
\* exactly once among its authorization validators and add_id_token exactly
\* once among its token modifiers; every create_authorization_response,
\* create_token_response and validate_authorization_request call is answered
\* by that engine, and no step after construction changes the composer or
\* any of its engine's three registries.
C12_AuthCodeHooks ==
    /\ [](composer.cls = "OpenIDConnectAuthCode" =>
            /\ composer.status = "built"
            /\ Count(composer.auth_code.authorization_validators,
                     "openid_authorization_validator") = 1
            /\ Count(composer.auth_code.token_modifiers, "add_id_token") = 1
            /\ composer.implicit = NoEngine
            /\ last.op \in AuthCodeMethods => last.engine = composer.auth_code.cls)
    /\ [][composer.cls = "OpenIDConnectAuthCode" => composer' = composer]_vars

C12_Witness ==
    /\ composer.cls = "OpenIDConnectAuthCode"
    /\ last.op = "validate_authorization_request"
    /\ last.raised = ""
    /\ last.value.v.info # EmptyDict
    /\ last.engine = "AuthorizationCodeGrant"
    /\ request.claims # before.claims

Range(seq) == {seq[i] : i \in 1..Len(seq)}

\* the engines of a usable composer that take a request of response type rt
Handlers(rt) ==
    {e \in {"auth_code", "implicit"} :
        composer.status = "built" /\ rt \in Range(composer[e].response_types)}

\* C13: in the hybrid composer the response types registered on the
\* auth-code engine and those registered on the implicit engine are
\* disjoint, and a request of any registered response type is handled by
\* exactly one of the two engines.
C13_HybridDispatch ==
    composer.cls = "OpenIDConnectHybrid" =>
        /\ Range(composer.auth_code.response_types)
              \cap Range(composer.implicit.response_types) = {}
        /\ \A rt \in Range(composer.auth_code.response_types)
                       \cup Range(composer.implicit.response_types) :
              Cardinality(Handlers(rt)) = 1

\* C14 as stated: a run that ends in any failure leaves every request
\* field, claims included, as it was before the call.
C14_Original == (ValidatorRan /\ last.raised # "") => request = before

\* C14 amended: a run that ends in InvalidRequest, LoginRequired from the
\* silent login, ConsentRequired or a claims parse failure leaves every
\* request field as it was before the call; a run that ends in LoginRequired
\* from the user match leaves every field but claims as it was, and claims
\* holds the decoded value (the empty mapping for absent or empty claims).
C14_FailureFrame ==
    (ValidatorRan /\ last.raised # "") =>
        IF last.raised = "LoginRequired" /\ last.description = MsgUserMismatch
        THEN /\ [request EXCEPT !.claims = before.claims] = before
             /\ request.claims =
                   IF Truthy(before.claims) THEN loads(before.claims).value
                   ELSE EmptyDict
        ELSE request = before

C14_Witness ==
    /\ ValidatorRan
    /\ last.raised = "LoginRequired"
    /\ last.description = MsgUserMismatch
    /\ PromptIsNone(before)
    /\ before.claims = PyNone
    /\ request.claims = EmptyDict

\* C16: a run of the validator on a request it has already validated
\* successfully, the request validator answering as before, succeeds again
\* with an equal request info and leaves request.claims equal to the
\* mapping the earlier run produced, for empty and non-empty claims alike.
C16_RevalidationSucceeds ==
    (/\ ValidatorRan
     /\ validated.ok
     /\ validated.claims.t = "dict"
     /\ last.ans = validated.ans) =>
        /\ last.raised = ""
        /\ last.value = validated.value
        /\ request.claims = validated.claims

\* call i is over
Over(i) == procs[i].pc \in {"done", "end"}

\* the same request processed alone, in one piece
Alone(i) == openid_authorization_validator(procs[i].arrived, procs[i].ans)

\* C15: of two requests processed through one composer with their steps
\* interleaved in any way, each ends with the outcome, the request-validator
\* calls and the claims it gets when processed alone, add_id_token answers
\* as it does for the request alone, and the composer and its registries
\* are as construction left them.
C15_NoSharedState ==
    procs # <<>> =>
        /\ composer = OpenIDConnectAuthCode_init("validator")
        /\ \A i \in Procs :
              /\ Over(i) =>
                    /\ procs[i].raised = Alone(i).raised
                    /\ procs[i].description = Alone(i).description
                    /\ procs[i].value = Alone(i).value
                    /\ procs[i].calls = Alone(i).calls
                    /\ procs[i].request = Alone(i).request
              /\ procs[i].pc = "end" =>
                    procs[i].token =
                        add_id_token(PyDict([access_token |-> PyStr(<<"a">>)]),
                                     procs[i].arrived)

\* both calls are over, one got a request info and left parsed claims
\* behind, the other failed on its own claims
C15_Witness ==
    /\ procs # <<>>
    /\ Over(1) /\ Over(2)
    /\ procs[1].raised = ""
    /\ procs[1].value # PyNone
    /\ procs[1].request.claims = PyDict(DictSet(<<>>, <<"a">>, PyInt(<<"1">>)))
    /\ procs[2].raised = "ValueError"
    /\ procs[2].request.claims = PyStr(<<"{">>)
    /\ Len(procs[2].calls) = 2

====
